---- MODULE Spec2Model ----
(***************************************************************************)
(* A model of src/src/dispatcher.c: the shell's command dispatcher and the *)
(* helper-based pipeline coordinator (setup_io, execute_child_process,     *)
(* handle_parent_process, dispatch_external_command), together with the    *)
(* part of the operating system the code acts on: per-process descriptor   *)
(* tables with lowest-free-number allocation, pipes, files, fork, exec,    *)
(* exit and wait.  Spec is the helper-based revision (lines 208-430),      *)
(* FairSpec the same with the scheduling that progress rests on,           *)
(* SpecInline the inline revision (lines 32-206) and SpecSingle the        *)
(* single-command revision (lines 432-611).                                *)
(***************************************************************************)
EXTENDS Integers, Sequences, FiniteSets, TLC

\* ------------------------------------------------------------------ bounds

\* Longest pipeline the parser hands over.
MaxStages == 3
\* Number of input lines the shell loop dispatches.
MaxCalls == 2
\* Total number of stages of the lines of one run, and so of its processes.
MaxProcs == 3
\* Highest descriptor number of a process: pipe/open fail (EMFILE) beyond it.
MaxFd == 8

\* --------------------------------------------------------- program constants

STDIN_FILENO == 0
STDOUT_FILENO == 1
NULL == "NULL"

\* enum command_output_type (parser.h)
COMMAND_OUTPUT_STDOUT == "STDOUT"
COMMAND_OUTPUT_FILE_TRUNCATE == "FILE_TRUNCATE"
COMMAND_OUTPUT_FILE_APPEND == "FILE_APPEND"
COMMAND_OUTPUT_PIPE == "PIPE"

\* ------------------------------------------------------ descriptors, objects

Fds == 0 .. MaxFd

\* What a descriptor refers to.  kind: none | tty | pipe | file;
\* mode: r | w for a pipe end, r | trunc | append for a file.
NoFd == [kind |-> "none", id |-> 0, name |-> "", mode |-> ""]
Tty(n) == [kind |-> "tty", id |-> n, name |-> "", mode |-> ""]
PipeEnd(k, m) == [kind |-> "pipe", id |-> k, name |-> "", mode |-> m]
FileObj(f, m) == [kind |-> "file", id |-> 0, name |-> f, mode |-> m]

\* The shell starts with the three standard streams on the terminal.
InitFds == [n \in Fds |-> IF n \in 0 .. 2 THEN Tty(n) ELSE NoFd]

IsOpen(t, fd) == fd \in Fds /\ t[fd] # NoFd

FreeFds(t) == {n \in Fds : t[n] = NoFd}

\* The kernel hands out the lowest free descriptor number.
LowestFree(t) == CHOOSE n \in FreeFds(t) : \A m \in FreeFds(t) : n <= m

\* close(2): EBADF on a descriptor that is not open leaves the table alone.
close(t, fd) == IF IsOpen(t, fd) THEN [t EXCEPT ![fd] = NoFd] ELSE t

\* dup2(2): EBADF when oldfd is not open; a no-op when both are the same.
dup2(t, oldfd, newfd) ==
  IF IsOpen(t, oldfd) /\ newfd \in Fds THEN [t EXCEPT ![newfd] = t[oldfd]] ELSE t

\* ------------------------------------------------------------------- files

\* A path that names no file.
Absent == <<-1>>

\* Paths whose directory does not exist: they can be neither read nor created.
Unopenable == {"nodir/x"}

InitFiles == [f \in {"a", "nodir/x"} |-> IF f = "a" THEN <<8, 9>> ELSE Absent]

\* open(path, O_RDONLY): -1 when the path is NULL, absent, or no descriptor is free.
OpenReadFails(t, fs, f) == f \notin DOMAIN fs \/ fs[f] = Absent \/ FreeFds(t) = {}

\* open(path, O_WRONLY | O_CREAT | ...): -1 when the path cannot be created.
OpenWriteFails(t, fs, f) == f \notin DOMAIN fs \/ f \in Unopenable \/ FreeFds(t) = {}

\* The files after a successful open for writing: O_CREAT creates an absent
\* file empty, O_TRUNC empties an existing one.
OpenedForWriting(fs, f, m) ==
  [fs EXCEPT ![f] = IF m = "trunc" \/ @ = Absent THEN <<>> ELSE @]

\* write(2) of bytes b through an object: O_APPEND positions at end-of-file,
\* otherwise the write lands at the description's offset (0 after open).
WriteThrough(fs, obj, b) ==
  IF obj.kind # "file" \/ obj.mode = "r" THEN fs
  ELSE IF obj.mode = "append" THEN [fs EXCEPT ![obj.name] = @ \o b]
  ELSE [fs EXCEPT ![obj.name] =
          b \o (IF Len(@) > Len(b) THEN SubSeq(@, Len(b) + 1, Len(@)) ELSE <<>>)]

\* ------------------------------------------------------------- wait status

\* The status word wait(2) stores: exit code in bits 8..15, signal in bits 0..6.
ExitedStatus(code) == (code % 256) * 256
SignaledStatus(sig) == sig
WIFEXITED(s) == s % 128 = 0
WEXITSTATUS(s) == (s \div 256) % 256

\* ------------------------------------------------------------ the pipeline

\* struct command: argv, input_filename, output_type, output_filename; pipe_to
\* is the next element of the sequence (NULL past the last one).
Stage(argv, inf, ot, outf) ==
  [argv |-> argv, input_filename |-> inf, output_type |-> ot, output_filename |-> outf]

IsFileOutput(c) ==
  c.output_type \in {COMMAND_OUTPUT_FILE_TRUNCATE, COMMAND_OUTPUT_FILE_APPEND}

\* ------------------------------------------------------------------ setup_io

\* The open flags setup_io passes for a file output: O_WRONLY | O_CREAT with
\* O_TRUNC or with O_APPEND.
OutputModeAlwaysTrunc(output_type) == "trunc"

OutputMode(output_type) ==
  IF output_type = COMMAND_OUTPUT_FILE_TRUNCATE THEN "trunc" ELSE "append"

\* The output half of setup_io: pipe(curr_pipe) or open(output_filename, ...).
\* pipe_ok = FALSE is pipe() failing for a reason outside the model (ENFILE).
SetupOutput(current_cmd, output_fd, curr_pipe, t, fs, np, pipe_ok) ==
  IF current_cmd.output_type = COMMAND_OUTPUT_PIPE THEN
    IF ~pipe_ok \/ Cardinality(FreeFds(t)) < 2 THEN
      [ret |-> -1, output_fd |-> output_fd, curr_pipe |-> curr_pipe,
       fds |-> t, files |-> fs, npipes |-> np]
    ELSE
      LET r == LowestFree(t)
          t1 == [t EXCEPT ![r] = PipeEnd(np + 1, "r")]
          w == LowestFree(t1)
          t2 == [t1 EXCEPT ![w] = PipeEnd(np + 1, "w")]
      IN [ret |-> 0, output_fd |-> w, curr_pipe |-> <<r, w>>,
          fds |-> t2, files |-> fs, npipes |-> np + 1]
  ELSE IF IsFileOutput(current_cmd) THEN
    IF OpenWriteFails(t, fs, current_cmd.output_filename) THEN
      [ret |-> 0, output_fd |-> -1, curr_pipe |-> curr_pipe,
       fds |-> t, files |-> fs, npipes |-> np]
    ELSE
      LET fd == LowestFree(t)
          m == OutputMode(current_cmd.output_type)
      IN [ret |-> 0, output_fd |-> fd, curr_pipe |-> curr_pipe,
          fds |-> [t EXCEPT ![fd] = FileObj(current_cmd.output_filename, m)],
          files |-> OpenedForWriting(fs, current_cmd.output_filename, m),
          npipes |-> np]
  ELSE
    [ret |-> 0, output_fd |-> output_fd, curr_pipe |-> curr_pipe,
     fds |-> t, files |-> fs, npipes |-> np]

\* The input half: open(input_filename, O_RDONLY) when the stage names one.
\* o is the state SetupOutput left.
SetupInput(current_cmd, input_fd, o) ==
  IF current_cmd.input_filename # NULL THEN
    IF OpenReadFails(o.fds, o.files, current_cmd.input_filename) THEN
      [o EXCEPT !.ret = -1] @@ [input_fd |-> -1]
    ELSE
      LET fd == LowestFree(o.fds)
      IN [o EXCEPT !.fds = [@ EXCEPT ![fd] = FileObj(current_cmd.input_filename, "r")]]
           @@ [input_fd |-> fd]
  ELSE o @@ [input_fd |-> input_fd]

\* setup_io without its return after a failed open of the input file.
setup_io_unchecked_input(current_cmd, input_fd, output_fd, curr_pipe, t, fs, np, pipe_ok) ==
  LET o == SetupOutput(current_cmd, output_fd, curr_pipe, t, fs, np, pipe_ok)
  IN IF o.ret = -1 THEN o @@ [input_fd |-> input_fd]
     ELSE LET i == SetupInput(current_cmd, input_fd, o)
          IN IF i.output_fd = -1 /\ IsFileOutput(current_cmd)
             THEN [i EXCEPT !.ret = -1]
             ELSE [i EXCEPT !.ret = 0]

\* int setup_io(current_cmd, &input_fd, &output_fd, curr_pipe): the record it
\* returns holds the return value, the variables it writes through its pointer
\* arguments, and the descriptor table, files and pipe count it leaves behind.
setup_io(current_cmd, input_fd, output_fd, curr_pipe, t, fs, np, pipe_ok) ==
  LET o == SetupOutput(current_cmd, output_fd, curr_pipe, t, fs, np, pipe_ok)
  IN IF o.ret = -1 THEN o @@ [input_fd |-> input_fd]
     ELSE LET i == SetupInput(current_cmd, input_fd, o)
          IN IF i.ret = -1 THEN i
             ELSE IF i.output_fd = -1 /\ IsFileOutput(current_cmd)
                  THEN [i EXCEPT !.ret = -1]
                  ELSE i

\* ----------------------------------------------------- execute_child_process

\* execute_child_process without close(input_fd) after the dup2 onto stdin.
execute_child_process_keeps_input_fd(current_cmd, input_fd, output_fd, curr_pipe, t) ==
  LET t1 == IF input_fd # STDIN_FILENO THEN dup2(t, input_fd, STDIN_FILENO) ELSE t
      t2 == IF output_fd # STDOUT_FILENO
            THEN close(dup2(t1, output_fd, STDOUT_FILENO), output_fd) ELSE t1
  IN IF current_cmd.output_type = COMMAND_OUTPUT_PIPE THEN close(t2, curr_pipe[2]) ELSE t2

\* The descriptor table of the child at the execvp call.
execute_child_process(current_cmd, input_fd, output_fd, curr_pipe, t) ==
  LET t1 == IF input_fd # STDIN_FILENO
            THEN close(dup2(t, input_fd, STDIN_FILENO), input_fd) ELSE t
      t2 == IF output_fd # STDOUT_FILENO
            THEN close(dup2(t1, output_fd, STDOUT_FILENO), output_fd) ELSE t1
  IN IF current_cmd.output_type = COMMAND_OUTPUT_PIPE THEN close(t2, curr_pipe[2]) ELSE t2

\* ----------------------------------------------------- handle_parent_process

\* handle_parent_process handing the next stage the write end of the pipe.
handle_parent_process_write_end(current_cmd, input_fd, prev_pipe, curr_pipe, t) ==
  LET t1 == IF current_cmd.output_type = COMMAND_OUTPUT_PIPE
            THEN close(t, curr_pipe[2]) ELSE t
      t2 == IF prev_pipe[1] # -1 THEN close(t1, prev_pipe[1]) ELSE t1
  IN [input_fd |-> IF current_cmd.output_type = COMMAND_OUTPUT_PIPE
                   THEN curr_pipe[2] ELSE STDIN_FILENO,
      prev_pipe |-> curr_pipe,
      fds |-> t2]

\* handle_parent_process leaving the write end of the current pipe open.
handle_parent_process_keeps_write_end(current_cmd, input_fd, prev_pipe, curr_pipe, t) ==
  LET t2 == IF prev_pipe[1] # -1 THEN close(t, prev_pipe[1]) ELSE t
  IN [input_fd |-> IF current_cmd.output_type = COMMAND_OUTPUT_PIPE
                   THEN curr_pipe[1] ELSE STDIN_FILENO,
      prev_pipe |-> curr_pipe,
      fds |-> t2]

handle_parent_process(current_cmd, input_fd, prev_pipe, curr_pipe, t) ==
  LET t1 == IF current_cmd.output_type = COMMAND_OUTPUT_PIPE
            THEN close(t, curr_pipe[2]) ELSE t
      t2 == IF prev_pipe[1] # -1 THEN close(t1, prev_pipe[1]) ELSE t1
  IN [input_fd |-> IF current_cmd.output_type = COMMAND_OUTPUT_PIPE
                   THEN curr_pipe[1] ELSE STDIN_FILENO,
      prev_pipe |-> curr_pipe,
      fds |-> t2]

\* ------------------------------------------------- parser, builtin registry

\* What the programs on the search path do is theirs to decide: prog writes
\* Out to its standard output and ends, when it likes, with one of these
\* statuses; yes writes without end and ends only when a write finds no
\* process holding the read end of its pipe (SIGPIPE).
Programs == {"prog", "yes"}
Terminations == {ExitedStatus(3), SignaledStatus(9)}
BrokenPipeStatus == SignaledStatus(13)
Out(stage) == <<10 + stage>>

\* builtin_commands[]: {name, handler} pairs up to the sentinel.
builtin_commands ==
  << [name |-> "exit", handler |-> 1],
     [name |-> "cd", handler |-> 2],
     [name |-> "exit", handler |-> 3] >>

\* handler(argv, last_rv, shell_should_exit): its return value and the flag after.
Handler(h, argv, lrv, flag) ==
  IF h = 1 THEN [rv |-> lrv, flag |-> TRUE]
  ELSE IF h = 2 THEN [rv |-> 1, flag |-> flag]
  ELSE [rv |-> 42, flag |-> flag]

InputNames == {NULL, "a", "nodir/x"}

FinalOutputs ==
  { <<COMMAND_OUTPUT_STDOUT, NULL>>,
    <<COMMAND_OUTPUT_FILE_TRUNCATE, "a">>,
    <<COMMAND_OUTPUT_FILE_APPEND, "a">>,
    <<COMMAND_OUTPUT_FILE_TRUNCATE, "nodir/x">> }

Argvs == {<<"prog">>}

\* Stage chains the parser builds: every stage but the last pipes into the
\* next one, the last one writes to the terminal or to a named file.
RECURSIVE Chains(_)
Chains(n) ==
  IF n = 1
  THEN { <<Stage(a, i, o[1], o[2])>> : a \in Argvs, i \in InputNames, o \in FinalOutputs }
  ELSE { <<Stage(a, i, COMMAND_OUTPUT_PIPE, NULL)>> \o rest :
           a \in Argvs, i \in InputNames, rest \in Chains(n - 1) }

BuiltinLines ==
  { <<Stage(<<"exit">>, NULL, COMMAND_OUTPUT_STDOUT, NULL)>>,
    <<Stage(<<"cd">>, NULL, COMMAND_OUTPUT_STDOUT, NULL)>>,
    <<Stage(<<"exit">>, NULL, COMMAND_OUTPUT_PIPE, NULL),
      Stage(<<"prog">>, NULL, COMMAND_OUTPUT_STDOUT, NULL)>> }

\* Lines whose first program is not on the search path: execvp fails.
NotFoundLines ==
  { <<Stage(<<"nosuch">>, NULL, COMMAND_OUTPUT_STDOUT, NULL)>>,
    <<Stage(<<"nosuch">>, NULL, COMMAND_OUTPUT_PIPE, NULL),
      Stage(<<"prog">>, NULL, COMMAND_OUTPUT_STDOUT, NULL)>> }

\* An endless writer feeding a consumer that reads a bounded amount.
EndlessLines ==
  { <<Stage(<<"yes">>, NULL, COMMAND_OUTPUT_PIPE, NULL),
      Stage(<<"prog">>, NULL, COMMAND_OUTPUT_STDOUT, NULL)>> }

\* Input lines, by what the parser makes of them: a parse error (1, 2), a blank
\* line (no error, no command), or a stage chain.
Lines ==
  { [err |-> e, chain |-> <<>>] : e \in {1, 2} }
    \cup { [err |-> 0, chain |-> <<>>] }
    \cup { [err |-> 0, chain |-> c] :
             c \in BuiltinLines \cup NotFoundLines \cup EndlessLines \cup UNION { Chains(n) : n \in 1 .. MaxStages } }

\* enum parse_error parse_input(input, &parse_result)
parse_input(line) == [parse_error |-> line.err, parse_result |-> line.chain]

\* ------------------------------------------------------------------- state

VARIABLES
  pc,                \* where the shell is: idle | setup | fork | parent | wait | returned
  input,             \* the line being dispatched
  pipeline,          \* dispatch_external_command's argument (the parsed chain)
  current_cmd,       \* index into pipeline; Len(pipeline) + 1 is NULL
  input_fd, output_fd, prev_pipe, curr_pipe, status,
  last_rv, rv, shell_should_exit,
  fds,               \* the shell's descriptor table
  procs,             \* the process table: the shell's children
  files,             \* the file system: path -> contents
  npipes,            \* pipes created so far (names the next pipe)
  ncalls,            \* lines dispatched so far
  nstages,           \* what the lines dispatched so far count for
  calls,             \* builtin handler invocations of the current dispatch
  hist               \* how the current dispatch went (observation only)

vars ==
  << pc, input, pipeline, current_cmd, input_fd, output_fd, prev_pipe, curr_pipe,
     status, last_rv, rv, shell_should_exit, fds, procs, files, npipes, ncalls,
     nstages, calls, hist >>

Pids == 1 .. MaxProcs

NoStage == Stage(<<>>, NULL, COMMAND_OUTPUT_STDOUT, NULL)

\* A free slot of the process table.
\* stdin, stdout: what descriptors 0 and 1 referred to at the execvp call;
\* pipe: the pipe created for the stage; wrote: the bytes the program wrote
\* to descriptor 1 (observation only).
FreeProc ==
  [state |-> "free", fds |-> [n \in Fds |-> NoFd], inv |-> 0, stage |-> 0,
   cmd |-> NoStage, status |-> 0, wrote |-> <<>>, stdin |-> NoFd, stdout |-> NoFd,
   pipe |-> 0]

NoHist ==
  [path |-> "none", stage |-> 0, in_failed |-> FALSE, out_failed |-> FALSE,
   npipes0 |-> 0, files0 |-> InitFiles, flag0 |-> FALSE, fds0 |-> InitFds,
   final |-> 0]

\* An automatic variable before its first assignment holds whatever the stack held.
Indeterminate == {<<-1, -1>>, <<0, 1>>, <<3, 4>>}

Init ==
  /\ pc = "idle"
  /\ input = [err |-> 0, chain |-> <<>>]
  /\ pipeline = <<>>
  /\ current_cmd = 0
  /\ input_fd = 0
  /\ output_fd = 0
  /\ prev_pipe = <<-1, -1>>
  /\ curr_pipe = <<-1, -1>>
  /\ status = 0
  /\ last_rv = 0
  /\ rv = 0
  /\ shell_should_exit = FALSE
  /\ fds = InitFds
  /\ procs = [p \in Pids |-> FreeProc]
  /\ files = InitFiles
  /\ npipes = 0
  /\ ncalls = 0
  /\ nstages = 0
  /\ calls = <<>>
  /\ hist = NoHist

\* --------------------------------------------------- shell_command_dispatcher

\* The lookup loop without its return at the first match: the last match wins.
LastMatch(name) ==
  IF \E i \in 1 .. Len(builtin_commands) : builtin_commands[i].name = name
  THEN CHOOSE i \in 1 .. Len(builtin_commands) :
         /\ builtin_commands[i].name = name
         /\ \A j \in i + 1 .. Len(builtin_commands) : builtin_commands[j].name # name
  ELSE 0

\* The first entry of builtin_commands whose name is argv[0]; 0 when the loop
\* reaches the sentinel.
FirstMatch(name) ==
  IF \E i \in 1 .. Len(builtin_commands) : builtin_commands[i].name = name
  THEN CHOOSE i \in 1 .. Len(builtin_commands) :
         /\ builtin_commands[i].name = name
         /\ \A j \in 1 .. i - 1 : builtin_commands[j].name # name
  ELSE 0

\* The dispatcher without its parse-error test.
ParseFailedNever(parse_error) == FALSE

\* if (parse_error): any enumerator but the first (no error) is an error.
ParseFailed(parse_error) == parse_error # 0

\* The value shell_command_dispatcher returns on a parse error.
ParseErrorStatus == -1

\* An empty line reported as a success instead of the previous status.
EmptyLineStatusZero(lrv) == 0

\* The value shell_command_dispatcher returns for an empty parse result.
EmptyLineStatus(lrv) == lrv

\* The shell loop calls the dispatcher with the next line and the status of
\* the previous one, until a builtin asks it to exit.
Callable ==
  /\ pc \in {"idle", "returned"}
  /\ ~shell_should_exit
  /\ ncalls < MaxCalls

\* A line counts for its stages, and for one when it has none; the lines of
\* one run count for at most MaxProcs in total.
Cost(line) == IF line.chain = <<>> THEN 1 ELSE Len(line.chain)

CanCall(line) == nstages + Cost(line) <= MaxProcs

PrevStatus == IF pc = "idle" THEN last_rv ELSE rv

\* Slots of reaped children are free again.
Collected == [p \in Pids |-> IF procs[p].state = "reaped" THEN FreeProc ELSE procs[p]]

Enter(line) ==
  /\ input' = line
  /\ ncalls' = ncalls + 1
  /\ nstages' = nstages + Cost(line)
  /\ last_rv' = PrevStatus

EnterHist ==
  [NoHist EXCEPT !.npipes0 = npipes, !.files0 = files,
                 !.flag0 = shell_should_exit, !.fds0 = fds]

NoFrame ==
  /\ pipeline' = <<>>
  /\ current_cmd' = 0
  /\ input_fd' = 0
  /\ output_fd' = 0
  /\ prev_pipe' = <<-1, -1>>
  /\ curr_pipe' = <<-1, -1>>
  /\ status' = 0

\* if (parse_error) { ...; return -1; }
ParseError(line) ==
  /\ CanCall(line)
  /\ ParseFailed(parse_input(line).parse_error)
  /\ Enter(line)
  /\ rv' = ParseErrorStatus
  /\ pc' = "returned"
  /\ calls' = <<>>
  /\ procs' = Collected
  /\ hist' = [EnterHist EXCEPT !.path = "parse_error"]
  /\ NoFrame
  /\ UNCHANGED <<shell_should_exit, fds, files, npipes>>

\* if (!parse_result) return last_rv;
EmptyLine(line) ==
  /\ CanCall(line)
  /\ ~ParseFailed(parse_input(line).parse_error)
  /\ parse_input(line).parse_result = <<>>
  /\ Enter(line)
  /\ rv' = EmptyLineStatus(PrevStatus)
  /\ pc' = "returned"
  /\ calls' = <<>>
  /\ procs' = Collected
  /\ hist' = [EnterHist EXCEPT !.path = "blank"]
  /\ NoFrame
  /\ UNCHANGED <<shell_should_exit, fds, files, npipes>>

\* dispatch_parsed_command finds a builtin: its handler runs in the shell.
Builtin(line) ==
  /\ CanCall(line)
  /\ ~ParseFailed(parse_input(line).parse_error)
  /\ parse_input(line).parse_result # <<>>
  /\ LET cmd == parse_input(line).parse_result[1]
         i == FirstMatch(cmd.argv[1])
     IN /\ i # 0
        /\ LET h == builtin_commands[i].handler
               r == Handler(h, cmd.argv, PrevStatus, shell_should_exit)
           IN /\ calls' = << [handler |-> h, argv |-> cmd.argv, last_rv |-> PrevStatus,
                              flag |-> shell_should_exit, ret |-> r.rv] >>
              /\ rv' = r.rv
              /\ shell_should_exit' = r.flag
  /\ Enter(line)
  /\ pc' = "returned"
  /\ procs' = Collected
  /\ hist' = [EnterHist EXCEPT !.path = "builtin"]
  /\ NoFrame
  /\ UNCHANGED <<fds, files, npipes>>

\* dispatch_parsed_command finds no builtin: dispatch_external_command(cmd)
\* starts with its automatic variables initialised as declared.
External(line) ==
  /\ CanCall(line)
  /\ ~ParseFailed(parse_input(line).parse_error)
  /\ parse_input(line).parse_result # <<>>
  /\ FirstMatch(parse_input(line).parse_result[1].argv[1]) = 0
  /\ Enter(line)
  /\ pipeline' = parse_input(line).parse_result
  /\ current_cmd' = 1
  /\ input_fd' = STDIN_FILENO
  /\ output_fd' = STDOUT_FILENO
  /\ prev_pipe' = <<-1, -1>>
  /\ curr_pipe' \in Indeterminate
  /\ status' = 0
  /\ pc' = "setup"
  /\ calls' = <<>>
  /\ procs' = Collected
  /\ hist' = [EnterHist EXCEPT !.path = "external"]
  /\ UNCHANGED <<rv, shell_should_exit, fds, files, npipes>>

\* ------------------------------------------------- dispatch_external_command

\* return v; and back through dispatch_parsed_command and
\* shell_command_dispatcher (free_parse_result, return rv).
Return(v, path) ==
  /\ rv' = v
  /\ pc' = "returned"
  /\ hist' = [hist EXCEPT !.path = path, !.stage = current_cmd]
  /\ NoFrame

\* Observation: an open call of setup_io returned -1 (r is what it left).
InputOpenFailed(c, r) == c.input_filename # NULL /\ r.input_fd = -1
OutputOpenFailed(c, r) == IsFileOutput(c) /\ r.output_fd = -1

\* if (setup_io(current_cmd, &input_fd, &output_fd, curr_pipe) == -1) return -1;
Setup ==
  /\ pc = "setup"
  /\ \E pipe_ok \in BOOLEAN :
       LET c == pipeline[current_cmd]
           r == setup_io(c, input_fd, output_fd, curr_pipe, fds, files, npipes, pipe_ok)
       IN /\ fds' = r.fds
          /\ files' = r.files
          /\ npipes' = r.npipes
          /\ IF r.ret = -1
             THEN /\ rv' = -1
                  /\ pc' = "returned"
                  /\ hist' = [hist EXCEPT !.path = "setup_failed", !.stage = current_cmd,
                                          !.in_failed = InputOpenFailed(c, r),
                                          !.out_failed = OutputOpenFailed(c, r)]
                  /\ NoFrame
             ELSE /\ input_fd' = r.input_fd
                  /\ output_fd' = r.output_fd
                  /\ curr_pipe' = r.curr_pipe
                  /\ pc' = "fork"
                  /\ hist' = [hist EXCEPT !.stage = current_cmd,
                                          !.in_failed = InputOpenFailed(c, r),
                                          !.out_failed = OutputOpenFailed(c, r)]
                  /\ UNCHANGED <<rv, pipeline, current_cmd, prev_pipe, status>>
  /\ UNCHANGED <<input, last_rv, shell_should_exit, procs, ncalls, nstages, calls>>

FreePids == {p \in Pids : procs[p].state = "free"}

ClosedAll == [n \in Fds |-> NoFd]

\* The child without its exit(-1): it comes back from a failed execvp into the
\* coordinator's loop, a second shell.
Child_returns_after_exec_failure(c, t, in_fd, out_fd, cp, inv, stage, pipe) ==
  LET x == execute_child_process(c, in_fd, out_fd, cp, t)
  IN [FreeProc EXCEPT !.state = IF c.argv[1] \in Programs THEN "running" ELSE "coordinator",
                      !.fds = x, !.inv = inv, !.stage = stage,
                      !.cmd = c, !.stdin = x[0], !.stdout = x[1], !.pipe = pipe]

\* pid == 0: the child, a copy of the shell at the fork (its descriptor table
\* and automatic variables), runs execute_child_process: it rewires its own
\* table and calls execvp, which replaces the image or fails, and then the
\* child ends with exit(-1).  These steps touch nothing but the child's own
\* table, so they are taken together with the fork.
Child(c, t, in_fd, out_fd, cp, inv, stage, pipe) ==
  LET x == execute_child_process(c, in_fd, out_fd, cp, t)
  IN IF c.argv[1] \in Programs
     THEN [FreeProc EXCEPT !.state = "running", !.fds = x, !.inv = inv, !.stage = stage,
                           !.cmd = c, !.stdin = x[0], !.stdout = x[1], !.pipe = pipe]
     ELSE [FreeProc EXCEPT !.state = "zombie", !.inv = inv, !.stage = stage, !.cmd = c,
                           !.status = ExitedStatus(-1), !.stdin = x[0], !.stdout = x[1],
                           !.pipe = pipe]

\* pid = fork(): -1 when it fails, else (in the shell) the child's pid.
Fork ==
  /\ pc = "fork"
  /\ \E ok \in BOOLEAN :
       IF ok /\ FreePids # {}
       THEN LET pid == CHOOSE p \in FreePids : \A q \in FreePids : p <= q
                c == pipeline[current_cmd]
            IN /\ procs' = [procs EXCEPT ![pid] =
                    Child(c, fds, input_fd, output_fd, curr_pipe, ncalls, current_cmd,
                          IF c.output_type = COMMAND_OUTPUT_PIPE THEN npipes ELSE 0)]
               /\ pc' = "parent"
               /\ UNCHANGED <<rv, hist, pipeline, current_cmd, input_fd, output_fd,
                              prev_pipe, curr_pipe, status>>
       ELSE /\ Return(-1, "fork_failed")
            /\ UNCHANGED procs
  /\ UNCHANGED <<input, last_rv, shell_should_exit, fds, files, npipes, ncalls,
                 nstages, calls>>

\* The parent branch followed by a wait for the child just forked, before the
\* loop goes on to the next stage.
ParentThenWait ==
  /\ pc = "parent"
  /\ LET h == handle_parent_process(pipeline[current_cmd], input_fd, prev_pipe,
                                    curr_pipe, fds)
     IN /\ input_fd' = h.input_fd
        /\ prev_pipe' = h.prev_pipe
        /\ fds' = h.fds
  /\ current_cmd' = current_cmd + 1
  /\ pc' = "wait"
  /\ UNCHANGED <<input, pipeline, output_fd, curr_pipe, status, last_rv, rv,
                 shell_should_exit, procs, files, npipes, ncalls, nstages, calls, hist>>

\* pid > 0: handle_parent_process(...); current_cmd = current_cmd->pipe_to;
Parent ==
  /\ pc = "parent"
  /\ LET h == handle_parent_process(pipeline[current_cmd], input_fd, prev_pipe,
                                    curr_pipe, fds)
     IN /\ input_fd' = h.input_fd
        /\ prev_pipe' = h.prev_pipe
        /\ fds' = h.fds
  /\ current_cmd' = current_cmd + 1
  /\ pc' = IF current_cmd + 1 > Len(pipeline) THEN "wait" ELSE "setup"
  /\ UNCHANGED <<input, pipeline, output_fd, curr_pipe, status, last_rv, rv,
                 shell_should_exit, procs, files, npipes, ncalls, nstages, calls, hist>>

Children == {p \in Pids : procs[p].state \in {"running", "zombie"}}

\* wait(&status) > 0: some terminated child of the shell is reaped, whichever
\* the kernel picks, and its status stored; the kernel then forgets the child.
\* hist.final observes the status of the last stage's process.
Wait(p) ==
  /\ pc = "wait"
  /\ procs[p].state = "zombie"
  /\ status' = procs[p].status
  /\ procs' = [procs EXCEPT ![p].state = "reaped", ![p].status = 0]
  /\ hist' = IF procs[p].inv = ncalls /\ procs[p].stage = Len(pipeline)
             THEN [hist EXCEPT !.final = procs[p].status] ELSE hist
  /\ UNCHANGED <<pc, input, pipeline, current_cmd, input_fd, output_fd, prev_pipe,
                 curr_pipe, last_rv, rv, shell_should_exit, fds, files, npipes,
                 ncalls, nstages, calls>>

\* The value dispatch_external_command returns after its wait loop.
WaitResult(st) == IF WIFEXITED(st) THEN WEXITSTATUS(st) ELSE -1

\* wait() returns -1 (ECHILD): the loop ends and the status is decoded.
WaitDone ==
  /\ pc = "wait"
  /\ Children = {}
  /\ Return(WaitResult(status), "waited")
  /\ UNCHANGED <<input, last_rv, shell_should_exit, fds, procs, files, npipes,
                 ncalls, nstages, calls>>

\* ----------------------------------------------------------------- children

\* The processes that have an object open, and whether the shell has.
HeldBy(obj) == {p \in Pids : \E n \in Fds : procs[p].fds[n] = obj}
ShellHolds(obj) == \E n \in Fds : fds[n] = obj

\* A write to descriptor 1 of p finds a pipe that nobody can read.
BrokenPipe(p) ==
  /\ procs[p].fds[1].kind = "pipe"
  /\ procs[p].fds[1].mode = "w"
  /\ HeldBy(PipeEnd(procs[p].fds[1].id, "r")) = {}
  /\ ~ShellHolds(PipeEnd(procs[p].fds[1].id, "r"))

\* Whether the program of p can come to its end, and how it ends.
CanTerminate(p) == procs[p].cmd.argv[1] = "yes" => BrokenPipe(p)
StatusesOf(p) == IF procs[p].cmd.argv[1] = "yes" THEN {BrokenPipeStatus} ELSE Terminations

\* The program writes its output to descriptor 1 and terminates.
ChildExit(p) ==
  /\ procs[p].state = "running"
  /\ CanTerminate(p)
  /\ \E st \in StatusesOf(p) :
       procs' = [procs EXCEPT ![p].state = "zombie", ![p].status = st,
                              ![p].fds = ClosedAll, ![p].wrote = Out(procs[p].stage)]
  /\ files' = WriteThrough(files, procs[p].fds[1], Out(procs[p].stage))
  /\ UNCHANGED <<pc, input, pipeline, current_cmd, input_fd, output_fd, prev_pipe,
                 curr_pipe, status, last_rv, rv, shell_should_exit, fds,
                 npipes, ncalls, nstages, calls, hist>>

Next ==
  \/ Callable /\ \E line \in Lines : ParseError(line)
  \/ Callable /\ \E line \in Lines : EmptyLine(line)
  \/ Callable /\ \E line \in Lines : Builtin(line)
  \/ Callable /\ \E line \in Lines : External(line)
  \/ Setup
  \/ Fork
  \/ Parent
  \/ \E p \in Pids : Wait(p)
  \/ WaitDone
  \/ \E p \in Pids : ChildExit(p)

Spec == Init /\ [][Next]_vars

\* The shell is a running process: each step of its loop that can be taken is
\* taken; a program that can come to its end does.
FairSpec ==
  /\ Spec
  /\ WF_vars(Setup)
  /\ WF_vars(Fork)
  /\ WF_vars(Parent)
  /\ WF_vars(\E p \in Pids : Wait(p))
  /\ WF_vars(WaitDone)
  /\ \A p \in Pids : WF_vars(ChildExit(p))

\* ------------------------------------------ the single-command revision
\* The third revision of the file (lines 432-611): dispatch_external_command
\* runs the head command only, opens its files itself and waits for its pid.
\* The dispatcher around it is the same code as above.

ExternalSingle(line) ==
  /\ CanCall(line)
  /\ ~ParseFailed(parse_input(line).parse_error)
  /\ parse_input(line).parse_result # <<>>
  /\ FirstMatch(parse_input(line).parse_result[1].argv[1]) = 0
  /\ Enter(line)
  /\ pipeline' = parse_input(line).parse_result
  /\ current_cmd' = 1
  /\ input_fd' = STDIN_FILENO
  /\ output_fd' = STDOUT_FILENO
  /\ prev_pipe' = <<-1, -1>>
  /\ curr_pipe' = <<-1, -1>>
  /\ status' = 0
  /\ pc' = "open"
  /\ calls' = <<>>
  /\ procs' = Collected
  /\ hist' = [EnterHist EXCEPT !.path = "external"]
  /\ UNCHANGED <<rv, shell_should_exit, fds, files, npipes>>

\* The input redirection (lines 498-504): what it leaves in input_fd and in
\* the descriptor table.
SingleInput(c, t, fs) ==
  IF c.input_filename = NULL THEN [input_fd |-> STDIN_FILENO, fds |-> t]
  ELSE IF OpenReadFails(t, fs, c.input_filename) THEN [input_fd |-> -1, fds |-> t]
  ELSE [input_fd |-> LowestFree(t),
        fds |-> [t EXCEPT ![LowestFree(t)] = FileObj(c.input_filename, "r")]]

\* The output redirection (lines 507-526) after a successful input redirection
\* i: on a failed open it closes input_fd and the function returns -1.
SingleOutput(c, i, fs) ==
  IF ~IsFileOutput(c) THEN
    [ret |-> 0, output_fd |-> STDOUT_FILENO, fds |-> i.fds, files |-> fs]
  ELSE IF OpenWriteFails(i.fds, fs, c.output_filename) THEN
    [ret |-> -1, output_fd |-> -1, fds |-> close(i.fds, i.input_fd), files |-> fs]
  ELSE
    LET fd == LowestFree(i.fds)
        m == OutputMode(c.output_type)
    IN [ret |-> 0, output_fd |-> fd,
        fds |-> [i.fds EXCEPT ![fd] = FileObj(c.output_filename, m)],
        files |-> OpenedForWriting(fs, c.output_filename, m)]

\* Lines 498-526: both redirections, up to the fork or to a return -1.
SingleOpen ==
  /\ pc = "open"
  /\ LET c == pipeline[1]
         i == SingleInput(c, fds, files)
     IN IF i.input_fd = -1
        THEN /\ rv' = -1
             /\ pc' = "returned"
             /\ hist' = [hist EXCEPT !.path = "input_failed", !.stage = 1, !.in_failed = TRUE]
             /\ NoFrame
             /\ UNCHANGED <<fds, files>>
        ELSE LET o == SingleOutput(c, i, files)
             IN /\ fds' = o.fds
                /\ files' = o.files
                /\ IF o.ret = -1
                   THEN /\ rv' = -1
                        /\ pc' = "returned"
                        /\ hist' = [hist EXCEPT !.path = "output_failed", !.stage = 1,
                                                !.out_failed = TRUE]
                        /\ NoFrame
                   ELSE /\ input_fd' = i.input_fd
                        /\ output_fd' = o.output_fd
                        /\ pc' = "spawn"
                        /\ hist' = [hist EXCEPT !.stage = 1]
                        /\ UNCHANGED <<rv, pipeline, current_cmd, prev_pipe, curr_pipe, status>>
  /\ UNCHANGED <<input, last_rv, shell_should_exit, procs, npipes, ncalls, nstages, calls>>

\* The child of this revision calls execvp at once, with the descriptor table
\* it inherited (lines 536-547).
ChildSingle(c, t, inv) ==
  IF c.argv[1] \in Programs
  THEN [FreeProc EXCEPT !.state = "running", !.fds = t, !.inv = inv, !.stage = 1,
                        !.cmd = c, !.stdin = t[0], !.stdout = t[1]]
  ELSE [FreeProc EXCEPT !.state = "zombie", !.inv = inv, !.stage = 1, !.cmd = c,
                        !.status = ExitedStatus(-1), !.stdin = t[0], !.stdout = t[1]]

\* pid = fork(); if (pid == -1) return -1; (lines 528-534)
SingleFork ==
  /\ pc = "spawn"
  /\ \E ok \in BOOLEAN :
       IF ok /\ FreePids # {}
       THEN LET pid == CHOOSE p \in FreePids : \A q \in FreePids : p <= q
            IN /\ procs' = [procs EXCEPT ![pid] = ChildSingle(pipeline[1], fds, ncalls)]
               /\ pc' = "waitpid"
               /\ UNCHANGED <<rv, hist, pipeline, current_cmd, input_fd, output_fd,
                              prev_pipe, curr_pipe, status>>
       ELSE /\ Return(-1, "fork_failed")
            /\ UNCHANGED procs
  /\ UNCHANGED <<input, last_rv, shell_should_exit, fds, files, npipes, ncalls,
                 nstages, calls>>

\* waitpid(pid, &status, 0) and the decoding of the status (lines 550-557).
SingleWait ==
  /\ pc = "waitpid"
  /\ \E p \in Pids :
       /\ procs[p].inv = ncalls
       /\ procs[p].state = "zombie"
       /\ procs' = [procs EXCEPT ![p].state = "reaped", ![p].status = 0]
       /\ rv' = WaitResult(procs[p].status)
       /\ hist' = [hist EXCEPT !.path = "waited", !.stage = 1, !.final = procs[p].status]
  /\ pc' = "returned"
  /\ NoFrame
  /\ UNCHANGED <<input, last_rv, shell_should_exit, fds, files, npipes, ncalls,
                 nstages, calls>>

NextSingle ==
  \/ Callable /\ \E line \in Lines : ParseError(line)
  \/ Callable /\ \E line \in Lines : EmptyLine(line)
  \/ Callable /\ \E line \in Lines : Builtin(line)
  \/ Callable /\ \E line \in Lines : ExternalSingle(line)
  \/ SingleOpen
  \/ SingleFork
  \/ SingleWait
  \/ \E p \in Pids : ChildExit(p)

SpecSingle == Init /\ [][NextSingle]_vars

\* ------------------------------------------------- the inline revision
\* The first revision of the file (lines 32-206): dispatch_external_command
\* does everything in its loop body.  Its automatic variables, its wait loop
\* and the dispatcher around it are the same code as in the helper-based
\* revision.

\* Lines 73-89: the pipe or the output file of the stage; no input file is
\* opened, and the append case opens the file the head of the pipeline names.
InlineOutput(head, c, out_fd, cp, t, fs, np, pipe_ok) ==
  IF c.output_type = COMMAND_OUTPUT_PIPE THEN
    IF ~pipe_ok \/ Cardinality(FreeFds(t)) < 2 THEN
      [ret |-> -1, output_fd |-> out_fd, curr_pipe |-> cp,
       fds |-> t, files |-> fs, npipes |-> np]
    ELSE
      LET r == LowestFree(t)
          t1 == [t EXCEPT ![r] = PipeEnd(np + 1, "r")]
          w == LowestFree(t1)
          t2 == [t1 EXCEPT ![w] = PipeEnd(np + 1, "w")]
      IN [ret |-> 0, output_fd |-> w, curr_pipe |-> <<r, w>>,
          fds |-> t2, files |-> fs, npipes |-> np + 1]
  ELSE IF IsFileOutput(c) THEN
    LET f == IF c.output_type = COMMAND_OUTPUT_FILE_TRUNCATE
             THEN c.output_filename ELSE head.output_filename
    IN IF OpenWriteFails(t, fs, f) THEN
         [ret |-> -1, output_fd |-> -1, curr_pipe |-> cp,
          fds |-> t, files |-> fs, npipes |-> np]
       ELSE
         LET fd == LowestFree(t)
             m == OutputMode(c.output_type)
         IN [ret |-> 0, output_fd |-> fd, curr_pipe |-> cp,
             fds |-> [t EXCEPT ![fd] = FileObj(f, m)],
             files |-> OpenedForWriting(fs, f, m), npipes |-> np]
  ELSE
    [ret |-> 0, output_fd |-> out_fd, curr_pipe |-> cp,
     fds |-> t, files |-> fs, npipes |-> np]

InlineSetup ==
  /\ pc = "setup"
  /\ \E pipe_ok \in BOOLEAN :
       LET c == pipeline[current_cmd]
           r == InlineOutput(pipeline[1], c, output_fd, curr_pipe, fds, files, npipes, pipe_ok)
       IN /\ fds' = r.fds
          /\ files' = r.files
          /\ npipes' = r.npipes
          /\ IF r.ret = -1
             THEN /\ rv' = -1
                  /\ pc' = "returned"
                  /\ hist' = [hist EXCEPT !.path = "setup_failed", !.stage = current_cmd,
                                          !.out_failed = OutputOpenFailed(c, r)]
                  /\ NoFrame
             ELSE /\ output_fd' = r.output_fd
                  /\ curr_pipe' = r.curr_pipe
                  /\ pc' = "fork"
                  /\ hist' = [hist EXCEPT !.stage = current_cmd]
                  /\ UNCHANGED <<rv, pipeline, current_cmd, input_fd, prev_pipe, status>>
  /\ UNCHANGED <<input, last_rv, shell_should_exit, procs, ncalls, nstages, calls>>

\* Lines 97-110: the descriptor table of the child at the execvp call.
InlineChildFds(c, in_fd, out_fd, cp, t) ==
  LET t1 == IF in_fd # STDIN_FILENO
            THEN close(dup2(t, in_fd, STDIN_FILENO), in_fd) ELSE t
      t2 == IF out_fd # STDOUT_FILENO
            THEN close(dup2(t1, out_fd, STDOUT_FILENO), out_fd) ELSE t1
  IN IF c.output_type = COMMAND_OUTPUT_PIPE
     THEN close(close(t2, cp[1]), cp[2]) ELSE t2

\* Lines 93-121: the child up to its program replacement or its exit(-1).
InlineChild(c, t, in_fd, out_fd, cp, inv, stage, pipe) ==
  LET x == InlineChildFds(c, in_fd, out_fd, cp, t)
  IN IF c.argv[1] \in Programs
     THEN [FreeProc EXCEPT !.state = "running", !.fds = x, !.inv = inv, !.stage = stage,
                           !.cmd = c, !.stdin = x[0], !.stdout = x[1], !.pipe = pipe]
     ELSE [FreeProc EXCEPT !.state = "zombie", !.inv = inv, !.stage = stage, !.cmd = c,
                           !.status = ExitedStatus(-1), !.stdin = x[0], !.stdout = x[1],
                           !.pipe = pipe]

\* pid = fork() at line 91 and its failure branch (lines 145-148).
InlineFork ==
  /\ pc = "fork"
  /\ \E ok \in BOOLEAN :
       IF ok /\ FreePids # {}
       THEN LET pid == CHOOSE p \in FreePids : \A q \in FreePids : p <= q
                c == pipeline[current_cmd]
            IN /\ procs' = [procs EXCEPT ![pid] =
                    InlineChild(c, fds, input_fd, output_fd, curr_pipe, ncalls, current_cmd,
                                IF c.output_type = COMMAND_OUTPUT_PIPE THEN npipes ELSE 0)]
               /\ pc' = "parent"
               /\ UNCHANGED <<rv, hist, pipeline, current_cmd, input_fd, output_fd,
                              prev_pipe, curr_pipe, status>>
       ELSE /\ Return(-1, "fork_failed")
            /\ UNCHANGED procs
  /\ UNCHANGED <<input, last_rv, shell_should_exit, fds, files, npipes, ncalls,
                 nstages, calls>>

\* Lines 126-141: the parent closes both numbers of the previous pipe, then
\* the write end of the current one.
InlineParentFds(c, pp, cp, t) ==
  LET t1 == IF pp[1] # -1
            THEN close(close(t, pp[1]), pp[2]) ELSE t
  IN IF c.output_type = COMMAND_OUTPUT_PIPE THEN close(t1, cp[2]) ELSE t1

InlineParent ==
  /\ pc = "parent"
  /\ fds' = InlineParentFds(pipeline[current_cmd], prev_pipe, curr_pipe, fds)
  /\ input_fd' = IF pipeline[current_cmd].output_type = COMMAND_OUTPUT_PIPE
                 THEN curr_pipe[1] ELSE STDIN_FILENO
  /\ prev_pipe' = curr_pipe
  /\ current_cmd' = current_cmd + 1
  /\ pc' = IF current_cmd + 1 > Len(pipeline) THEN "wait" ELSE "setup"
  /\ UNCHANGED <<input, pipeline, output_fd, curr_pipe, status, last_rv, rv,
                 shell_should_exit, procs, files, npipes, ncalls, nstages, calls, hist>>

NextInline ==
  \/ Callable /\ \E line \in Lines : ParseError(line)
  \/ Callable /\ \E line \in Lines : EmptyLine(line)
  \/ Callable /\ \E line \in Lines : Builtin(line)
  \/ Callable /\ \E line \in Lines : External(line)
  \/ InlineSetup
  \/ InlineFork
  \/ InlineParent
  \/ \E p \in Pids : Wait(p)
  \/ WaitDone
  \/ \E p \in Pids : ChildExit(p)

SpecInline == Init /\ [][NextInline]_vars

\* ============================================================== properties

Returned == pc = "returned"

\* The stage chain of the line being dispatched.
Chain == input.chain

ExternalPaths == {"setup_failed", "fork_failed", "waited"}

\* The processes spawned by the current dispatch.
Mine == {p \in Pids : procs[p].state # "free" /\ procs[p].inv = ncalls}

StagesSpawned == {procs[p].stage : p \in Mine}

\* What the specification has the dispatcher report for a wait status: the
\* exit code of a normal exit, the failure value otherwise.
Reported(st) == IF st % 128 = 0 THEN (st \div 256) % 256 ELSE -1

\* C1: when every stage of the pipeline was spawned, the dispatcher returns
\* the exit status of the last stage's process, whatever the other stages'
\* statuses and whatever order the processes terminate in.
C1_StatusOfLastStage ==
  (Returned /\ hist.path = "waited") => rv = Reported(hist.final)

\* C2: when dispatch_external_command has returned, normally or with -1, no
\* end of a pipe created during that invocation is open in the shell.
C2_NoPipeLeftOpen ==
  (Returned /\ hist.path \in ExternalPaths) =>
    \A n \in Fds : ~(fds[n].kind = "pipe" /\ fds[n].id > hist.npipes0)

\* C3: when dispatch_external_command has returned, on any path, every
\* process it spawned has terminated and been reaped.
C3_AllReapedAtReturn ==
  (Returned /\ hist.path \in ExternalPaths) =>
    \A p \in Mine : procs[p].state = "reaped"

\* C4: when opening a stage's named input or output file fails, the dispatcher
\* returns -1 and no process exists for that stage or a later one.
C4_OpenFailureSpawnsNothing ==
  (hist.in_failed \/ hist.out_failed) =>
    /\ Returned
    /\ rv = -1
    /\ \A p \in Mine : procs[p].stage < hist.stage

\* A two-stage pipeline whose second stage names an input file that cannot be
\* opened has returned, its first stage spawned.
C4_Witness ==
  /\ Returned
  /\ hist.in_failed
  /\ hist.stage = 2
  /\ StagesSpawned = {1}
  /\ rv = -1

\* Processes that reached the execvp call of their stage.
Launched == {p \in Pids : procs[p].state # "free"}

\* The process of the stage before p's in the same pipeline, if it exists.
Before(p) ==
  {q \in Launched : procs[q].inv = procs[p].inv /\ procs[q].stage + 1 = procs[p].stage}

\* C5: a stage with pipe output reaches execvp with its standard output on the
\* write end of the pipe created for it, and the next stage with its standard
\* input on the read end of that same pipe, or on its named input file when it
\* names one; no other process has that pipe on a standard stream, so what
\* stage N writes is what stage N+1 reads.
C5_StagesWiredThroughTheirPipe ==
  \A p \in Launched :
    /\ procs[p].cmd.output_type = COMMAND_OUTPUT_PIPE =>
         /\ procs[p].pipe > 0
         /\ procs[p].stdout = PipeEnd(procs[p].pipe, "w")
         /\ \A r \in Launched \ {p} : procs[r].stdout # procs[p].stdout
    /\ \A q \in Before(p) :
         /\ procs[p].stdin =
              IF procs[p].cmd.input_filename = NULL
              THEN PipeEnd(procs[q].pipe, "r")
              ELSE FileObj(procs[p].cmd.input_filename, "r")
         /\ \A r \in Launched \ {p} : procs[r].stdin # PipeEnd(procs[q].pipe, "r")

\* A three-stage pipeline is running: the third stage reads the second pipe,
\* the second one the first pipe.
C5_Witness ==
  \E p, q, r \in Launched :
    /\ procs[p].inv = ncalls /\ procs[q].inv = ncalls /\ procs[r].inv = ncalls
    /\ procs[p].stage = 1 /\ procs[q].stage = 2 /\ procs[r].stage = 3
    /\ procs[q].cmd.input_filename = NULL
    /\ procs[r].cmd.input_filename = NULL
    /\ procs[r].state = "running"
    /\ procs[r].stdin = PipeEnd(procs[q].pipe, "r")
    /\ procs[q].stdin = PipeEnd(procs[p].pipe, "r")
    /\ procs[p].pipe # procs[q].pipe

\* The last stage of the line and its process.
LastStage == Chain[Len(Chain)]
LastProc == CHOOSE p \in Mine : procs[p].stage = Len(Chain)

\* C6: after a pipeline whose last stage writes to a named file that existed
\* with contents, the file holds exactly the bytes that stage wrote (truncate)
\* or its prior contents followed by them (append); the file is the one the
\* stage itself names.
C6_OutputFileContents ==
  (/\ Returned
   /\ hist.path = "waited"
   /\ IsFileOutput(LastStage)
   /\ hist.files0[LastStage.output_filename] # Absent
   /\ hist.files0[LastStage.output_filename] # <<>>) =>
     files[LastStage.output_filename] =
       IF LastStage.output_type = COMMAND_OUTPUT_FILE_TRUNCATE
       THEN procs[LastProc].wrote
       ELSE hist.files0[LastStage.output_filename] \o procs[LastProc].wrote

\* prog >> a has run on the file a that held <<8, 9>>.
C6_Witness ==
  /\ Returned
  /\ hist.path = "waited"
  /\ LastStage.output_type = COMMAND_OUTPUT_FILE_APPEND
  /\ hist.files0[LastStage.output_filename] = <<8, 9>>
  /\ procs[LastProc].wrote # <<>>
  /\ files[LastStage.output_filename] = <<8, 9>> \o procs[LastProc].wrote

\* C7: for a single external command without redirection the dispatcher
\* returns the program's exit code when it exited normally and -1 when it
\* terminated abnormally.
C7_SingleCommandStatus ==
  (/\ Returned
   /\ hist.path = "waited"
   /\ Len(Chain) = 1
   /\ Chain[1].input_filename = NULL
   /\ Chain[1].output_type = COMMAND_OUTPUT_STDOUT) =>
     rv = Reported(hist.final)

\* The registry entries whose name is the head command's argv[0].
Matches == {i \in 1 .. Len(builtin_commands) : builtin_commands[i].name = Chain[1].argv[1]}

\* C8: a head command that names a builtin has the first matching handler run
\* once, in the shell, with argv, the previous status and the exit flag; no
\* process is forked and the handler's value is returned.  Any other command
\* goes, whole chain, to dispatch_external_command, whose status is returned.
C8_BuiltinOrExternal ==
  /\ (Returned /\ input.err = 0 /\ Chain # <<>>) =>
       IF Matches # {}
       THEN /\ hist.path = "builtin"
            /\ Len(calls) = 1
            /\ \E i \in Matches :
                 /\ \A j \in Matches : i <= j
                 /\ calls[1].handler = builtin_commands[i].handler
            /\ calls[1].argv = Chain[1].argv
            /\ calls[1].last_rv = last_rv
            /\ calls[1].flag = hist.flag0
            /\ rv = calls[1].ret
            /\ Mine = {}
       ELSE /\ hist.path \in ExternalPaths
            /\ calls = <<>>
            /\ hist.path = "waited" => StagesSpawned = 1 .. Len(Chain)
  /\ pc \in {"setup", "fork", "parent", "wait"} =>
       /\ Matches = {}
       /\ pipeline = Chain
       /\ calls = <<>>

\* The line "exit", which two registry entries name, has been dispatched.
C8_Witness ==
  /\ Returned
  /\ hist.path = "builtin"
  /\ Cardinality(Matches) = 2
  /\ Len(calls) = 1
  /\ shell_should_exit

\* C9: for a blank line the dispatcher returns the previous status it was
\* given, runs no handler, spawns no process and leaves the exit flag alone.
C9_BlankLine ==
  (Returned /\ input.err = 0 /\ Chain = <<>>) =>
    /\ rv = last_rv
    /\ calls = <<>>
    /\ Mine = {}
    /\ shell_should_exit = hist.flag0
    /\ fds = hist.fds0

\* A blank line follows a line that failed.
C9_Witness ==
  /\ Returned
  /\ input.err = 0
  /\ Chain = <<>>
  /\ ncalls = 2
  /\ last_rv = -1
  /\ rv = -1

\* C10: on a parse error the dispatcher returns -1 and executes nothing: no
\* handler, no process, the exit flag unchanged.
C10_ParseError ==
  (Returned /\ input.err # 0) =>
    /\ rv = -1
    /\ calls = <<>>
    /\ Mine = {}
    /\ shell_should_exit = hist.flag0
    /\ fds = hist.fds0

\* A line with a parse error follows a command that returned 3.
C10_Witness ==
  /\ Returned
  /\ input.err # 0
  /\ last_rv = 3
  /\ rv = -1

\* The descriptors above the three standard streams.
Extra == Fds \ (0 .. 2)

\* C11: a child that has replaced its process image holds no descriptor but
\* its standard streams: not the read end of the pipe it writes into, not a
\* previous pipe's read end, not a file opened for another stage.
C11_ChildHoldsOnlyItsStreams ==
  \A p \in Pids : procs[p].state = "running" =>
    \A n \in Extra : procs[p].fds[n] = NoFd

\* C14: the wait loop of a dispatch reaps only processes that dispatch
\* spawned, so a child an earlier dispatch left behind is never reaped by a
\* later one.
C14_ReapsOnlyItsOwn ==
  \A p \in Pids : procs[p].state = "reaped" => procs[p].inv = ncalls

\* C16: when dispatch_external_command returns after its wait loop, the
\* descriptors open in the shell are those that were open when it was called.
C16_DescriptorsRestored ==
  (Returned /\ hist.path = "waited") => fds = hist.fds0

\* The shell is between the fork of p's stage and the end of its
\* handle_parent_process call.
InParentOf(p) == pc = "parent" /\ procs[p].inv = ncalls /\ procs[p].stage = current_cmd

\* C15: once the shell has run handle_parent_process for a stage with pipe
\* output, and so before it forks the next stage, the write end of that
\* stage's pipe is open in no process but the stage's own; once that process
\* has exited it is open nowhere, so a read on the pipe reaches end-of-stream.
C15_WriteEndOnlyInItsStage ==
  \A p \in Launched :
    (procs[p].pipe > 0 /\ ~InParentOf(p)) =>
      /\ ~ShellHolds(PipeEnd(procs[p].pipe, "w"))
      /\ HeldBy(PipeEnd(procs[p].pipe, "w")) \subseteq {p}
      /\ procs[p].state # "running" => HeldBy(PipeEnd(procs[p].pipe, "w")) = {}

\* Stage 1 of a pipeline has exited while stage 2, reading its pipe, runs:
\* nobody holds the write end any more.
C15_Witness ==
  \E p, q \in Launched :
    /\ procs[p].pipe > 0
    /\ procs[p].state = "zombie"
    /\ procs[p].cmd.argv[1] \in Programs
    /\ q \in Mine
    /\ procs[q].state = "running"
    /\ procs[q].stdin = PipeEnd(procs[p].pipe, "r")
    /\ HeldBy(PipeEnd(procs[p].pipe, "w")) = {}
    /\ ~ShellHolds(PipeEnd(procs[p].pipe, "w"))

\* C17: a stage whose output disposition is terminal reaches execvp with the
\* shell's inherited standard output as its standard output, also when it
\* follows pipe-output stages (output_fd then holds the number of the closed
\* write end of the previous pipe) and when its named input file was opened
\* on that very number.
C17_TerminalStageKeepsStdout ==
  \A p \in Launched :
    procs[p].cmd.output_type = COMMAND_OUTPUT_STDOUT =>
      /\ procs[p].stdout = InitFds[STDOUT_FILENO]
      /\ procs[p].stdout = fds[STDOUT_FILENO]

\* The final stage of prog | prog < a has been forked: output_fd still holds
\* the number of the first pipe's write end, on which the input file was opened.
C17_Witness ==
  /\ pc = "parent"
  /\ current_cmd = 2
  /\ pipeline[1].output_type = COMMAND_OUTPUT_PIPE
  /\ pipeline[2].output_type = COMMAND_OUTPUT_STDOUT
  /\ pipeline[2].input_filename = "a"
  /\ output_fd # STDOUT_FILENO
  /\ input_fd = output_fd
  /\ fds[output_fd] = FileObj("a", "r")
  /\ \E p \in Mine :
       /\ procs[p].stage = 2
       /\ procs[p].stdin = FileObj("a", "r")
       /\ procs[p].stdout = InitFds[STDOUT_FILENO]

\* The processes whose program is not on the search path: execvp failed.
ExecFailed == {p \in Launched : procs[p].cmd.argv[1] \notin Programs}

\* C18: a child whose execvp failed has terminated with a non-zero exit
\* status and is no second coordinator: it holds nothing, is a zombie until
\* reaped, and each stage of a dispatch has one process at most.
C18_ExecFailureEndsTheChild ==
  /\ \A p \in ExecFailed :
       /\ procs[p].state \in {"zombie", "reaped"}
       /\ procs[p].fds = ClosedAll
       /\ procs[p].state = "zombie" =>
            /\ WIFEXITED(procs[p].status)
            /\ WEXITSTATUS(procs[p].status) # 0
  /\ \A p \in Pids : procs[p].state \in {"free", "running", "zombie", "reaped"}
  /\ \A p, q \in Launched :
       (procs[p].inv = procs[q].inv /\ procs[p].stage = procs[q].stage) => p = q

\* The first stage of nosuch | prog has failed to exec and waits to be reaped
\* while the shell has gone on to fork the second stage.
C18_Witness ==
  \E p \in ExecFailed, q \in Mine :
    /\ p \in Mine
    /\ procs[p].state = "zombie"
    /\ WEXITSTATUS(procs[p].status) = 255
    /\ procs[q].stage = 2
    /\ procs[q].state = "running"

\* C20: the shell waits only after the loop: while stages are being set up
\* and forked no child has been reaped and status is untouched, whether or
\* not earlier stages have terminated, and when the first wait happens every
\* stage of the pipeline has been forked.
C20_NoWaitBetweenForks ==
  /\ pc \in {"setup", "fork", "parent"} =>
       /\ \A p \in Pids : procs[p].state # "reaped"
       /\ status = 0
       /\ StagesSpawned = 1 .. (IF pc = "parent" THEN current_cmd ELSE current_cmd - 1)
  /\ pc = "wait" =>
       /\ current_cmd = Len(pipeline) + 1
       /\ StagesSpawned = 1 .. Len(pipeline)

\* Stage 2 has been forked and runs while stage 1, already terminated, has
\* not been waited for.
C20_Witness ==
  /\ pc = "parent"
  /\ current_cmd = 2
  /\ \E p, q \in Mine :
       /\ procs[p].stage = 1
       /\ procs[p].state = "zombie"
       /\ procs[p].cmd.argv[1] \in Programs
       /\ procs[q].stage = 2
       /\ procs[q].state = "running"

\* C19: in the single-command revision a failed open of the named output file
\* makes the function return -1 with the shell's standard descriptors still
\* open: for a command without input file, descriptor 0 is open afterwards.
C19_StdinSurvivesOutputFailure ==
  (/\ Returned
   /\ hist.path = "output_failed"
   /\ Chain[1].input_filename = NULL) =>
     /\ rv = -1
     /\ IsOpen(fds, STDIN_FILENO)

\* The pipe created for the stage before the current one.
PrevPipeId == procs[CHOOSE p \in Mine : procs[p].stage = current_cmd - 1].pipe

\* C13: in the inline revision the parent never calls close on a number that
\* at that moment names an open end of another pipe than the previous one,
\* and the descriptor recorded as the input of the next stage is the open
\* read end of the previous stage's pipe when that stage is forked.
C13_InlineClosesOnlyItsEnds ==
  /\ (pc = "parent" /\ current_cmd > 1 /\ prev_pipe[1] # -1) =>
       \A i \in 1 .. 2 :
         (IsOpen(fds, prev_pipe[i]) /\ fds[prev_pipe[i]].kind = "pipe") =>
           fds[prev_pipe[i]] = PipeEnd(PrevPipeId, IF i = 1 THEN "r" ELSE "w")
  /\ (pc = "fork" /\ current_cmd > 1) =>
       /\ IsOpen(fds, input_fd)
       /\ fds[input_fd] = PipeEnd(PrevPipeId, "r")

\* The shell is inside dispatch_external_command.
Dispatching == pc \in {"setup", "fork", "parent", "wait"}

\* C12: a dispatch of a pipeline whose programs end at end-of-stream or at a
\* broken pipe eventually returns: an endless writer whose consumer has exited
\* does not block for ever.
C12_DispatchReturns == Dispatching ~> Returned

====
